---- MODULE Spec2Model ----
(***************************************************************************)
(* Block synchronisation and ordering protocol of the Manan note editor:   *)
(* the BlockNoteEditor component ("front end"/src/components/BlockEditor), *)
(* its React Query hooks (hooks/useApi), the optimistic hooks of           *)
(* hooks/useBlocks and the block routes of the backend.  The               *)
(* specifications of this module:                                          *)
(*   Spec       an editor session: edits, save triggers, rejected calls    *)
(*   SpecDelete a session that inserts and removes nodes                   *)
(*   SpecIdem   a session of content edits only                            *)
(*   SpecOrder  a session that reorders the nodes of a four-row page       *)
(*   SpecNav    a session whose host page changes the pageId               *)
(*   SpecMap    the block type mapper, applied to bounded input strings    *)
(*   SpecPos    calculatePosition, applied to bounded sibling positions    *)
(*   SpecCalc   calculatePosition, applied to bounded documents and maps   *)
(*   SpecFair   Spec with the steps that need no user taken eventually     *)
(*   SpecUnchanged  content edits on rows that hold the editor's props     *)
(*   SpecUnmount    a session that ends with the unmount of the editor     *)
(*   SpecSaving     sessions with rejected calls, timers and calls fair    *)
(*   SpecPatch      PATCH /blocks/:id with partial bodies                  *)
(*   SpecCache      the optimistic list cache of hooks/useBlocks           *)
(***************************************************************************)
EXTENDS Integers, Sequences, FiniteSets, TLC

(***************************************************************************)
(* Bounds of the model.                                                    *)
(***************************************************************************)
MaxNodes == 2        \* longest document the user builds by inserting nodes
MaxRows == 2         \* most rows the page holds when the editor is mounted
MaxSrvIds == 5       \* store ids the backend hands out in one behaviour
MaxEdits == 1        \* edits of the document in one behaviour of Spec
MaxTimers == 2       \* 500 ms timers pending together
MaxFailures == 1     \* store calls that are rejected in one behaviour of Spec
DeleteEdits == 2     \* insertions and removals in one behaviour of SpecDelete
IdemEdits == 3       \* content edits in one behaviour of SpecIdem
OrderRows == 4       \* rows of the page in SpecOrder
OrderEdits == 1      \* moves and removals in one behaviour of SpecOrder
NavEdits == 1        \* content edits in one behaviour of SpecNav
MaxNavs == 1         \* pageId changes in one behaviour of SpecNav
MaxRefetches == 1    \* background refetches in one behaviour of SpecNav
MaxGap == 3          \* largest gap between sibling positions tried in SpecPos
MaxChain == 2        \* conversions applied in a row in SpecMap
UnchangedEdits == 2  \* content edits in one behaviour of SpecUnchanged
MaxCalcNodes == 3    \* nodes of the documents handed to calculatePosition in SpecCalc

(***************************************************************************)
(* Block type mapper (hooks/useApi).                                       *)
(***************************************************************************)
BLOCKNOTE_TO_API_TYPE_MAP ==
    [t \in {"paragraph", "heading", "bulletListItem", "numberedListItem",
            "checkListItem", "table", "image", "video", "audio", "file",
            "codeBlock", "divider", "quote", "callout"} |->
        CASE t = "paragraph" -> "TEXT"
          [] t = "heading" -> "HEADING"
          [] t = "bulletListItem" -> "BULLETED_LIST"
          [] t = "numberedListItem" -> "NUMBERED_LIST"
          [] t = "checkListItem" -> "CHECKLIST"
          [] t = "table" -> "TABLE"
          [] t = "image" -> "IMAGE"
          [] t = "video" -> "EMBED"
          [] t = "audio" -> "EMBED"
          [] t = "file" -> "FILE"
          [] t = "codeBlock" -> "CODE"
          [] t = "divider" -> "DIVIDER"
          [] t = "quote" -> "QUOTE"
          [] t = "callout" -> "CALL_OUT"]

API_TO_BLOCKNOTE_TYPE_MAP ==
    [t \in {"TEXT", "HEADING", "BULLETED_LIST", "NUMBERED_LIST", "CHECKLIST",
            "TODO", "TABLE", "IMAGE", "EMBED", "FILE", "CODE", "DIVIDER",
            "QUOTE", "CALL_OUT"} |->
        CASE t = "TEXT" -> "paragraph"
          [] t = "HEADING" -> "heading"
          [] t = "BULLETED_LIST" -> "bulletListItem"
          [] t = "NUMBERED_LIST" -> "numberedListItem"
          [] t = "CHECKLIST" -> "checkListItem"
          [] t = "TODO" -> "checkListItem"
          [] t = "TABLE" -> "table"
          [] t = "IMAGE" -> "image"
          [] t = "EMBED" -> "video"
          [] t = "FILE" -> "file"
          [] t = "CODE" -> "codeBlock"
          [] t = "DIVIDER" -> "divider"
          [] t = "QUOTE" -> "quote"
          [] t = "CALL_OUT" -> "callout"]

\* Both tables are object literals: table[key] also finds the members every
\* object inherits from Object.prototype, and those are truthy non-strings.
ObjectPrototypeKeys ==
    {"constructor", "toString", "valueOf", "hasOwnProperty", "__proto__"}

InheritedMember == "<Object.prototype member>"

\* table[key] || fallback
Lookup(table, key, fallback) ==
    IF key \in DOMAIN table THEN table[key]
    ELSE IF key \in ObjectPrototypeKeys THEN InheritedMember
    ELSE fallback

mapBlockNoteTypeToAPI(blockNoteType) ==
    Lookup(BLOCKNOTE_TO_API_TYPE_MAP, blockNoteType, "TEXT")

\* variant with the CHECKLIST entry lost; the round trip must tell it apart
MapAPITypeChecklistAsParagraph(apiType) ==
    IF apiType = "CHECKLIST" THEN "paragraph"
    ELSE Lookup(API_TO_BLOCKNOTE_TYPE_MAP, apiType, "paragraph")

mapAPITypeToBlockNote(apiType) ==
    Lookup(API_TO_BLOCKNOTE_TYPE_MAP, apiType, "paragraph")

\* JSON.stringify(existing.content) !== JSON.stringify(new.content) || ... ;
\* existingBlock is a block of the query cache, whose type useBlocks has
\* already converted to the editor vocabulary.
hasBlockChanged(existingBlock, newBlock) ==
    \/ existingBlock.content # newBlock.content
    \/ existingBlock.properties # newBlock.props
    \/ existingBlock.type # mapBlockNoteTypeToAPI(newBlock.type)

(***************************************************************************)
(* Identifiers.  The code tells store ids from client ids by their lexical *)
(* shape only, so an id is a string together with the outcome of each      *)
(* test of isServerGeneratedId on it.                                      *)
(***************************************************************************)
PlaceholderIds == {"loading-paragraph", "default-paragraph", "error-fallback"}

\* ids the editor surface gives to nodes typed by the user (UUID v4)
EditorIdTable ==
    << "0b1e0000-0000-4000-8000-000000000001",
       "0b1e0000-0000-4000-8000-000000000002",
       "0b1e0000-0000-4000-8000-000000000003",
       "0b1e0000-0000-4000-8000-000000000004",
       "0b1e0000-0000-4000-8000-000000000005" >>

\* ids the store assigns on create (prisma cuid(), 25 characters)
SrvIdTable ==
    << "cmblk0000000000000000srv1", "cmblk0000000000000000srv2",
       "cmblk0000000000000000srv3", "cmblk0000000000000000srv4",
       "cmblk0000000000000000srv5", "cmblk0000000000000000srv6",
       "cmblk0000000000000000srv7", "cmblk0000000000000000srv8",
       "cmblk0000000000000000srv9" >>

EditorIds == {EditorIdTable[n] : n \in DOMAIN EditorIdTable}
SrvIds == {SrvIdTable[n] : n \in DOMAIN SrvIdTable}

\* the outcome of the string tests of isServerGeneratedId on each id
IdShape(id) ==
    [ startsTempOrNew |-> FALSE,       \* id.startsWith("temp-") || "new-"
      hasClientOrLocal |-> FALSE,      \* id.includes("client-") || "local-"
      isUUID |-> id \in EditorIds,
      isObjectId |-> FALSE,            \* /^[0-9a-f]{24}$/i
      isNumeric |-> FALSE,             \* /^\d+$/
      longerThan10 |-> TRUE,           \* all ids of the model have > 10 chars
      hasTempInfix |-> FALSE ]         \* id.includes("-temp")

isServerGeneratedId(id) ==
    LET sh == IdShape(id)
        isNotPlaceholder == id \notin PlaceholderIds
        isNotTempId == ~sh.startsTempOrNew
        isNotClientGenerated == ~sh.hasClientOrLocal
        looksLikeServerId ==
            \/ sh.isUUID \/ sh.isObjectId \/ sh.isNumeric
            \/ (sh.longerThan10 /\ ~sh.hasTempInfix)
    IN  isNotPlaceholder /\ isNotTempId /\ isNotClientGenerated /\ looksLikeServerId

isBlockOnServer(id, serverBlocks) ==
    \E k \in DOMAIN serverBlocks : serverBlocks[k].id = id

\* variant that takes only UUIDs for ids of the store
IsConfirmedUUIDOnly(id, serverBlocks) ==
    isBlockOnServer(id, serverBlocks) /\ IdShape(id).isUUID

isConfirmedServerBlock(id, serverBlocks) ==
    isBlockOnServer(id, serverBlocks) /\ isServerGeneratedId(id)

(***************************************************************************)
(* Position allocator.  blockIndex is 0-based as in the code;              *)
(* existingPositions is a function whose DOMAIN is the set of keys.        *)
(***************************************************************************)
RECURSIVE ScanBack(_, _, _)
ScanBack(editorBlocks, i, existingPositions) ==
    IF i < 0 THEN 0
    ELSE IF editorBlocks[i + 1].id \in DOMAIN existingPositions
         THEN existingPositions[editorBlocks[i + 1].id]
         ELSE ScanBack(editorBlocks, i - 1, existingPositions)

RECURSIVE ScanForward(_, _, _, _)
ScanForward(editorBlocks, i, existingPositions, default) ==
    IF i >= Len(editorBlocks) THEN default
    ELSE IF editorBlocks[i + 1].id \in DOMAIN existingPositions
         THEN existingPositions[editorBlocks[i + 1].id]
         ELSE ScanForward(editorBlocks, i + 1, existingPositions, default)

BasePosition == 1000
DefaultGap == 2000
PositionTolerance == 100

\* variant whose forward scan starts at the node itself
CalculatePositionScansSelf(editorBlocks, blockIndex, existingPositions) ==
    IF blockIndex = 0 THEN BasePosition
    ELSE LET prevPosition == ScanBack(editorBlocks, blockIndex - 1, existingPositions)
             nextPosition == ScanForward(editorBlocks, blockIndex, existingPositions,
                                         prevPosition + DefaultGap)
         IN  (prevPosition + nextPosition) \div 2

calculatePosition(editorBlocks, blockIndex, existingPositions) ==
    IF blockIndex = 0 THEN BasePosition
    ELSE LET prevPosition == ScanBack(editorBlocks, blockIndex - 1, existingPositions)
             nextPosition == ScanForward(editorBlocks, blockIndex + 1, existingPositions,
                                         prevPosition + DefaultGap)
         IN  (prevPosition + nextPosition) \div 2

(***************************************************************************)
(* State of one mounted BlockNoteEditor, the React Query block cache and   *)
(* the block table of the backend.                                         *)
(***************************************************************************)
VARIABLES
    store,           \* rows of the backend's block table
    cache,           \* React Query data of ['blocks', page], per page
    loaded,          \* pages whose block query has resolved
    pageId,          \* the pageId prop of the mounted editor
    doc,             \* editor.document
    isEditorReady,   \* useState
    isSavingRef,     \* useRef
    pendingChanges,  \* useState; <<>> stands for null
    pendingPage,     \* history: the page shown when pendingChanges was captured
    timers,          \* pending 500 ms timers, oldest first
    passes,          \* saveChanges invocations that have not returned
    saveStatus,      \* useState
    resetTimers,     \* pending setTimeout(() => setSaveStatus("idle"))
    nextSrv,         \* index of the next id the store assigns
    nextEd,          \* index of the next id the editor surface assigns
    edits,           \* edits of the document the user still makes
    failures,        \* store calls that are still going to be rejected
    navs,            \* pageId changes still to come
    refetches,       \* background refetches of the block query still to come
    lastInvoke,      \* history: how the last saveChanges invocation went
    lastDone,        \* history: the saveChanges pass that returned last
    mapIn,           \* SpecMap: the string handed to the type mapper
    mapVal,          \* SpecMap: the value after the conversions of mapOps
    mapOps,          \* SpecMap: the conversions applied so far
    posIn,           \* SpecPos: positions of three adjacent siblings
    posOut,          \* SpecPos, SpecCalc: result of calculatePosition, -1 before the call
    posIndex,        \* SpecCalc: the blockIndex handed to calculatePosition
    mounted,         \* whether the BlockNoteEditor component is mounted
    mutations,       \* SpecCache: hooks/useBlocks mutations between onMutate and settlement
    patched,         \* SpecPatch: the last PATCH /blocks/:id, the row before and after it
    settled          \* SpecCache: history, the hooks/useBlocks mutation that settled last

vars == << store, cache, loaded, pageId, doc, isEditorReady, isSavingRef,
           pendingChanges, pendingPage, timers, passes, saveStatus,
           resetTimers, nextSrv, nextEd, edits, failures, navs,
           refetches, lastInvoke, lastDone, mapIn, mapVal, mapOps, posIn, posOut,
           posIndex, mounted, mutations, patched, settled >>

syncVars == << store, cache, loaded, pageId, doc, isEditorReady, isSavingRef,
               pendingChanges, pendingPage, timers, passes, saveStatus,
               resetTimers, nextSrv, nextEd, edits, failures, navs,
               refetches, lastInvoke, lastDone, mounted, mutations, patched, settled >>

\* the variables of an editor session except mounted
syncVarsOfSession == << store, cache, loaded, pageId, doc, isEditorReady, isSavingRef,
                        pendingChanges, pendingPage, timers, passes, saveStatus,
                        resetTimers, nextSrv, nextEd, edits, failures, navs,
                        refetches, lastInvoke, lastDone >>

\* the variables that no step of a mounted editor changes
pure == << mapIn, mapVal, mapOps, posIn, posOut, posIndex, mounted, mutations, patched, settled >>

Pages == {"P", "Q"}
DefaultProps == "textColor:default,backgroundColor:default,textAlignment:left"
NoPass == [valid |-> FALSE]
NoPatch == [valid |-> FALSE]
NoSettled == [valid |-> FALSE]

\* createBlockSchema and updateBlockSchema have no "properties" key, so the
\* validated body has none and the routes store properties ?? {}
StoredProperties == "{}"

Range(s) == {s[k] : k \in DOMAIN s}

\* const { data: serverBlocks = [], isLoading } = useBlocks(pageId)
ServerBlocksOf(p) == IF p \in loaded THEN cache[p] ELSE << >>
serverBlocks == ServerBlocksOf(pageId)
isLoading == pageId \notin loaded

\* prisma.block.findMany({ where: { pageId }, orderBy: { position: "asc" } });
\* rows of equal position come in an order the database chooses.
RECURSIVE SortedRows(_)
SortedRows(rows) ==
    IF rows = {} THEN {<< >>}
    ELSE LET least == {r \in rows : \A o \in rows : r.position <= o.position}
         IN  UNION {{<<r>> \o rest : rest \in SortedRows(rows \ {r})} : r \in least}

\* useBlocks queryFn: the rows with their type converted to the editor's
WithMappedType(block) == [block EXCEPT !.type = mapAPITypeToBlockNote(block.type)]

MapRows(rows) == [k \in DOMAIN rows |-> WithMappedType(rows[k])]

\* [...blocks].sort((a, b) => (a.position || 0) - (b.position || 0)), stable
RECURSIVE SortByPosition(_)
SortByPosition(blocks) ==
    IF Len(blocks) <= 1 THEN blocks
    ELSE LET sortedTail == SortByPosition(Tail(blocks))
             h == Head(blocks)
             before == SelectSeq(sortedTail, LAMBDA b : b.position < h.position)
             after == SelectSeq(sortedTail, LAMBDA b : b.position >= h.position)
         IN  before \o <<h>> \o after

DefaultParagraph ==
    [id |-> "default-paragraph", type |-> "paragraph", content |-> 0, props |-> DefaultProps]

\* variant of the load that leaves the initial node in the document
ProcessServerBlocksKeepsPlaceholder(blocks) ==
    << [id |-> "loading-paragraph", type |-> "paragraph", content |-> 0,
        props |-> DefaultProps] >>
    \o [k \in DOMAIN blocks |->
          [id |-> blocks[k].id, type |-> blocks[k].type,
           content |-> blocks[k].content, props |-> DefaultProps]]

\* processServerBlocks, regular branch, and the empty-document fallback
processServerBlocks(blocks) ==
    IF Len(blocks) = 0 THEN << DefaultParagraph >>
    ELSE LET sortedBlocks == SortByPosition(blocks)
         IN  [k \in DOMAIN sortedBlocks |->
                [id |-> sortedBlocks[k].id, type |-> sortedBlocks[k].type,
                 content |-> sortedBlocks[k].content, props |-> DefaultProps]]

\* a re-render in which saveChanges gets a new identity re-creates
\* debouncedSave: timers of older debounce instances keep running
Rerendered(ts) == [k \in DOMAIN ts |-> [ts[k] EXCEPT !.cur = FALSE]]

\* the values a saveChanges closure captured at its render
Closure == [pageId |-> pageId, serverBlocks |-> serverBlocks, isEditorReady |-> isEditorReady]

(***************************************************************************)
(* saveChanges: one pass is a record that walks its plan one store call    *)
(* at a time.  Between the resolution of a call and the issue of the next  *)
(* nothing else runs (the continuation of an await).                       *)
(***************************************************************************)
Abs(x) == IF x < 0 THEN 0 - x ELSE x

NoCall ==
    [op |-> "none", id |-> "", node |-> "", pageId |-> "", type |-> "", content |-> 0,
     properties |-> "", position |-> 0]

\* deleteBlockMutation.mutateAsync({ blockId, pageId })
DeleteCall(blockId, page) ==
    [NoCall EXCEPT !.op = "delete", !.id = blockId, !.pageId = page]

\* createBlockMutation.mutateAsync({ pageId, type, content, properties, position })
CreateCall(block, page, position) ==
    [NoCall EXCEPT !.op = "create", !.node = block.id, !.pageId = page,
                   !.type = mapBlockNoteTypeToAPI(block.type),
                   !.content = block.content, !.properties = block.props,
                   !.position = position]

\* variant whose updateData keeps the position of the server block
UpdateCallKeepsPosition(block, existingBlock, position) ==
    [NoCall EXCEPT !.op = "update", !.id = block.id, !.node = block.id,
                   !.pageId = existingBlock.pageId,
                   !.type = IF existingBlock.type # mapBlockNoteTypeToAPI(block.type)
                            THEN mapBlockNoteTypeToAPI(block.type) ELSE "",
                   !.content = block.content, !.properties = block.props,
                   !.position = existingBlock.position]

\* updateBlockMutation.mutateAsync({ id, data: updateData }); type "" is an
\* updateData without a type
UpdateCall(block, existingBlock, position) ==
    [NoCall EXCEPT !.op = "update", !.id = block.id, !.node = block.id,
                   !.pageId = existingBlock.pageId,
                   !.type = IF existingBlock.type # mapBlockNoteTypeToAPI(block.type)
                            THEN mapBlockNoteTypeToAPI(block.type) ELSE "",
                   !.content = block.content, !.properties = block.props,
                   !.position = position]

FindBlock(blocks, id) == blocks[CHOOSE k \in DOMAIN blocks : blocks[k].id = id]

\* existingPositions.set(block.id, block.position) for every server block
SeedPositions(blocks) ==
    [id \in {blocks[k].id : k \in DOMAIN blocks} |-> FindBlock(blocks, id).position]

SetPosition(existingPositions, id, position) ==
    [k \in DOMAIN existingPositions \cup {id} |->
        IF k = id THEN position ELSE existingPositions[k]]

\* variant that also deletes the nodes the server list does not know
BlocksToDeleteAnyShape(blocks, editorDocument) ==
    LET editorAllIds == {editorDocument[k].id : k \in DOMAIN editorDocument}
        sel == SelectSeq(blocks, LAMBDA b : b.id \notin editorAllIds)
    IN  [k \in DOMAIN sel |-> sel[k].id] \o
        SelectSeq([k \in DOMAIN editorDocument |-> editorDocument[k].id],
                  LAMBDA id : ~isBlockOnServer(id, blocks))

\* variant that deletes every server block with a valid id, in the editor or not
BlocksToDeleteEveryBlock(blocks, editorDocument) ==
    LET sel == SelectSeq(blocks, LAMBDA b : isServerGeneratedId(b.id))
    IN  [k \in DOMAIN sel |-> sel[k].id]

\* STEP 1: the server blocks missing from the editor with a valid id
BlocksToDelete(blocks, editorDocument) ==
    LET editorAllIds == {editorDocument[k].id : k \in DOMAIN editorDocument}
        sel == SelectSeq(blocks, LAMBDA b : b.id \notin editorAllIds /\ isServerGeneratedId(b.id))
    IN  [k \in DOMAIN sel |-> sel[k].id]

\* variant that walks the document first and issues the delete calls last
RECURSIVE AdvanceDeletesLast(_)
AdvanceDeletesLast(p) ==
    IF p.phase = "walk"
    THEN IF p.i <= Len(p.toDelete)
         THEN LET c == DeleteCall(p.toDelete[p.i], p.cl.pageId)
              IN  [p EXCEPT !.out = c, !.calls = Append(@, c)]
         ELSE [p EXCEPT !.phase = "done", !.out = NoCall]
    ELSE IF p.i > Len(p.doc)
    THEN AdvanceDeletesLast([p EXCEPT !.phase = "walk", !.i = 1])
    ELSE LET block == p.doc[p.i]
             position == calculatePosition(p.doc, p.i - 1, p.existingPositions)
             r == [p EXCEPT !.positions[p.i] = position]
         IN  IF ~isConfirmedServerBlock(block.id, p.cl.serverBlocks)
             THEN LET c == CreateCall(block, p.cl.pageId, position)
                  IN  [r EXCEPT !.out = c, !.calls = Append(@, c)]
             ELSE LET existingBlock == FindBlock(p.cl.serverBlocks, block.id)
                      needsUpdate ==
                          \/ hasBlockChanged(existingBlock, block)
                          \/ Abs(existingBlock.position - position) > PositionTolerance
                      q == [r EXCEPT !.ids[p.i] = block.id]
                      c == UpdateCall(block, existingBlock, position)
                  IN  IF needsUpdate
                      THEN [q EXCEPT !.out = c, !.calls = Append(@, c)]
                      ELSE AdvanceDeletesLast([q EXCEPT !.i = p.i + 1])

\* runs a pass up to its next await: p.out is the call it then waits for,
\* or p.phase is "done"; p.positions keeps the position computed for each
\* node (history)
RECURSIVE Advance(_)
Advance(p) ==
    IF p.phase = "delete"
    THEN IF p.i <= Len(p.toDelete)
         THEN LET c == DeleteCall(p.toDelete[p.i], p.cl.pageId)
              IN  [p EXCEPT !.out = c, !.calls = Append(@, c)]
         ELSE Advance([p EXCEPT !.phase = "walk", !.i = 1])
    ELSE IF p.i > Len(p.doc)
    THEN [p EXCEPT !.phase = "done", !.out = NoCall]
    ELSE LET block == p.doc[p.i]
             position == calculatePosition(p.doc, p.i - 1, p.existingPositions)
             r == [p EXCEPT !.positions[p.i] = position]
         IN  IF ~isConfirmedServerBlock(block.id, p.cl.serverBlocks)
             THEN LET c == CreateCall(block, p.cl.pageId, position)
                  IN  [r EXCEPT !.out = c, !.calls = Append(@, c)]
             ELSE LET existingBlock == FindBlock(p.cl.serverBlocks, block.id)
                      hasChanged == hasBlockChanged(existingBlock, block)
                      currentPosition == existingBlock.position
                      needsPositionUpdate == Abs(currentPosition - position) > PositionTolerance
                      q == [r EXCEPT !.ids[p.i] = block.id]
                  IN  IF hasChanged \/ needsPositionUpdate
                      THEN LET c == UpdateCall(block, existingBlock, position)
                           IN  [q EXCEPT !.out = c, !.calls = Append(@, c)]
                      ELSE Advance([q EXCEPT !.i = p.i + 1])

\* history: the pass that returned last had every call succeed, ran on the
\* page of this closure and left the cached list that this closure holds
FollowsCleanPass(cl) ==
    /\ lastDone.valid
    /\ lastDone.ok
    /\ lastDone.pageId = cl.pageId
    /\ lastDone.cacheAfter = cl.serverBlocks

\* history: the nodes which that pass created, with the ids the store gave
PrevCreated(cl) ==
    IF FollowsCleanPass(cl)
    THEN {[node |-> lastDone.doc[k].id, id |-> lastDone.ids[k],
           content |-> lastDone.doc[k].content] : k \in lastDone.created}
    ELSE {}

\* the pass as saveChanges sets it up before its first store call
NewPass(cl, editorDocument, capPage) ==
    Advance([doc |-> editorDocument, capPage |-> capPage, cl |-> cl,
             existingPositions |-> SeedPositions(cl.serverBlocks),
             toDelete |-> BlocksToDelete(cl.serverBlocks, editorDocument),
             phase |-> "delete", i |-> 1, out |-> NoCall, calls |-> << >>,
             ids |-> [k \in DOMAIN editorDocument |-> ""], ok |-> TRUE,
             positions |-> [k \in DOMAIN editorDocument |-> -1], succeeded |-> 0,
             prevSame |-> FollowsCleanPass(cl) /\ lastDone.doc = editorDocument,
             prevCreated |-> PrevCreated(cl)])

\* history: what is known of a pass when it returns, with the rows of its
\* page and the page's cached list at that moment
Summary(p, rows, cacheAfter) ==
    [valid |-> TRUE, doc |-> p.doc, pageId |-> p.cl.pageId, capPage |-> p.capPage,
     calls |-> p.calls, ids |-> p.ids, positions |-> p.positions, ok |-> p.ok,
     succeeded |-> p.succeeded,
     prevSame |-> p.prevSame, prevCreated |-> p.prevCreated,
     serverBlocks |-> p.cl.serverBlocks,
     created |-> {k \in DOMAIN p.ids :
                    /\ p.ids[k] # ""
                    /\ ~isConfirmedServerBlock(p.doc[k].id, p.cl.serverBlocks)},
     rowIds |-> {r.id : r \in {r \in rows : r.pageId = p.cl.pageId}},
     posOf |-> [k \in DOMAIN p.ids |->
                  IF \E r \in rows : r.id = p.ids[k]
                  THEN (CHOOSE r \in rows : r.id = p.ids[k]).position ELSE -1],
     cacheAfter |-> cacheAfter]

(***************************************************************************)
(* Initial state: the editor has just been mounted on page P, whose rows   *)
(* are what earlier sessions of this editor left there (positions 1000,    *)
(* 2000, ... as the allocator hands them out to a fresh document).         *)
(***************************************************************************)
InitialRow(n) ==
    [id |-> SrvIdTable[n], pageId |-> "P", type |-> "TEXT", content |-> 0,
     properties |-> StoredProperties, position |-> BasePosition * n]

LoadingParagraph ==
    [id |-> "loading-paragraph", type |-> "paragraph", content |-> 0, props |-> DefaultProps]

\* the editor just mounted on page P holding n rows, and what its user and
\* the network are still going to do
InitWith(rows, e, f, nv, rf) ==
    /\ \E n \in rows :
          /\ store = {InitialRow(k) : k \in 1..n}
          /\ nextSrv = n + 1
    /\ cache = [p \in Pages |-> << >>]
    /\ loaded = {}
    /\ pageId = "P"
    /\ doc = << LoadingParagraph >>
    /\ isEditorReady = FALSE
    /\ isSavingRef = FALSE
    /\ pendingChanges = << >>
    /\ pendingPage = ""
    /\ timers = << >>
    /\ passes = << >>
    /\ saveStatus = "idle"
    /\ resetTimers = 0
    /\ nextEd = 1
    /\ edits = e
    /\ failures = f
    /\ navs = nv
    /\ refetches = rf
    /\ lastInvoke = "none"
    /\ lastDone = NoPass
    /\ mapIn = "" /\ mapVal = "" /\ mapOps = << >>
    /\ posIn = << >> /\ posOut = -1 /\ posIndex = 0
    /\ mounted = TRUE /\ mutations = << >> /\ patched = NoPatch /\ settled = NoSettled

Init == InitWith(0..MaxRows, MaxEdits, MaxFailures, 0, 0)

\* the block query of the shown page resolves (first load or a refetch)
FetchBlocks ==
    /\ isLoading \/ refetches > 0
    /\ refetches' = IF isLoading THEN refetches ELSE refetches - 1
    /\ \E rows \in SortedRows({r \in store : r.pageId = pageId}) :
          cache' = [cache EXCEPT ![pageId] = MapRows(rows)]
    /\ loaded' = loaded \cup {pageId}
    /\ timers' = Rerendered(timers)
    /\ UNCHANGED << store, pageId, doc, isEditorReady, isSavingRef, pendingChanges,
                    pendingPage, passes, saveStatus, resetTimers, nextSrv, nextEd,
                    edits, failures, navs, lastInvoke, lastDone, pure >>

\* the load effect: runs while !isEditorReady, once the query has data
LoadServerContent ==
    /\ mounted
    /\ ~isEditorReady
    /\ ~isLoading
    /\ doc' = processServerBlocks(serverBlocks)
    /\ isEditorReady' = TRUE
    /\ timers' = Rerendered(timers)
    /\ UNCHANGED << store, cache, loaded, pageId, isSavingRef, pendingChanges,
                    pendingPage, passes, saveStatus, resetTimers, nextSrv, nextEd,
                    edits, failures, navs, refetches, lastInvoke, lastDone, pure >>

\* handleContentChange, called by the editor surface with the new document
ContentChanged(newDoc) ==
    /\ mounted
    /\ isEditorReady
    /\ doc' = newDoc
    /\ pendingChanges' = newDoc
    /\ pendingPage' = pageId
    /\ UNCHANGED << store, cache, loaded, pageId, isEditorReady, isSavingRef,
                    timers, passes, saveStatus, resetTimers, nextSrv, failures, navs,
                    refetches, lastInvoke, lastDone, pure >>

RemoveAt(s, i) == [k \in 1..(Len(s) - 1) |-> IF k < i THEN s[k] ELSE s[k + 1]]

InsertAt(s, i, e) ==
    [k \in 1..(Len(s) + 1) |-> IF k < i THEN s[k] ELSE IF k = i THEN e ELSE s[k - 1]]

EditContent ==
    \E i \in DOMAIN doc :
        /\ edits > 0
        /\ ContentChanged([doc EXCEPT ![i].content = 1 - @])
        /\ edits' = edits - 1
        /\ UNCHANGED nextEd

InsertNode ==
    \E i \in 1..(Len(doc) + 1) :
        /\ edits > 0
        /\ Len(doc) < MaxNodes
        /\ nextEd <= Len(EditorIdTable)
        /\ ContentChanged(InsertAt(doc, i,
              [id |-> EditorIdTable[nextEd], type |-> "paragraph", content |-> 0,
               props |-> DefaultProps]))
        /\ nextEd' = nextEd + 1
        /\ edits' = edits - 1

RemoveNode ==
    \E i \in DOMAIN doc :
        /\ edits > 0
        /\ Len(doc) > 1
        /\ ContentChanged(RemoveAt(doc, i))
        /\ edits' = edits - 1
        /\ UNCHANGED nextEd

MoveNode ==
    \E i \in DOMAIN doc : \E j \in DOMAIN doc :
        /\ edits > 0
        /\ i # j
        /\ ContentChanged(InsertAt(RemoveAt(doc, i), j, doc[i]))
        /\ edits' = edits - 1
        /\ UNCHANGED nextEd

\* some mutation isPending, as the handlers see it
mutationPending == passes # << >>

\* handleKeyDown on Enter, Space or Backspace: debouncedSave(pendingChanges)
KeyTrigger ==
    /\ mounted
    /\ isEditorReady
    /\ pendingChanges # << >>
    /\ ~mutationPending
    /\ LET kept == SelectSeq(timers, LAMBDA t : ~(t.kind = "debounce" /\ t.cur))
       IN  /\ Len(kept) < MaxTimers
           /\ timers' = Append(kept, [kind |-> "debounce", doc |-> pendingChanges,
                                      capPage |-> pendingPage, cl |-> Closure,
                                      cur |-> TRUE])
    /\ pendingChanges' = << >>
    /\ UNCHANGED << store, cache, loaded, pageId, doc, isEditorReady, isSavingRef,
                    pendingPage, passes, saveStatus, resetTimers, nextSrv, nextEd,
                    edits, failures, navs, refetches, lastInvoke, lastDone, pure >>

\* handleBlur: a 500 ms timer whose callback sees the values of this render
Blur ==
    /\ mounted
    /\ isEditorReady
    /\ pendingChanges # << >>
    /\ ~mutationPending
    /\ Len(timers) < MaxTimers
    /\ timers' = Append(timers, [kind |-> "blur", doc |-> pendingChanges,
                                 capPage |-> pendingPage, cl |-> Closure,
                                 cur |-> FALSE])
    /\ UNCHANGED << store, cache, loaded, pageId, doc, isEditorReady, isSavingRef,
                    pendingChanges, pendingPage, passes, saveStatus, resetTimers,
                    nextSrv, nextEd, edits, failures, navs, refetches, lastInvoke, lastDone, pure >>

\* BlockTypeEnum of the backend's schemas/block.ts
BlockTypeEnum ==
    {"TEXT", "HEADING", "TODO", "CHECKLIST", "SUMMARY", "IMAGE", "CODE", "QUOTE",
     "DIVIDER", "TABLE", "EMBED"}

\* variant of the guard without the in-flight flag
SaveChangesSkipsNotReadyOnly(cl) == ~cl.isEditorReady

\* if (isSavingRef.current || !isEditorReady) return
saveChangesSkips(cl) == isSavingRef \/ ~cl.isEditorReady

\* variant of the return of a pass without the finally block
FinishedKeepsFlag(p, rows, cacheAfter) ==
    /\ isSavingRef' = isSavingRef
    /\ saveStatus' = "saved"
    /\ resetTimers' = resetTimers + 1
    /\ lastDone' = Summary(p, rows, cacheAfter)

\* a pass returns: the finally block and the status of the try block
Finished(p, rows, cacheAfter) ==
    /\ isSavingRef' = FALSE
    /\ saveStatus' = "saved"
    /\ resetTimers' = resetTimers + 1
    /\ lastDone' = Summary(p, rows, cacheAfter)

\* the number of nodes of a document that a pass is going to create
CreatesOf(cl, editorDocument) ==
    Cardinality({k \in DOMAIN editorDocument :
                    ~isConfirmedServerBlock(editorDocument[k].id, cl.serverBlocks)})

\* a 500 ms timer fires: the debounced saveChanges, or the blur callback
TimerFire ==
    /\ timers # << >>
    /\ LET t == Head(timers)
           rest == Tail(timers)
           invoked == t.kind = "debounce" \/ ~isSavingRef
       IN  IF ~invoked
           THEN /\ timers' = rest
                /\ lastInvoke' = "skipped"
                /\ UNCHANGED << store, cache, loaded, pageId, doc, isEditorReady,
                                isSavingRef, pendingChanges, pendingPage, passes,
                                saveStatus, resetTimers, nextSrv, nextEd, edits,
                                failures, navs, refetches, lastDone, pure >>
           ELSE /\ pendingChanges' = IF t.kind = "blur" THEN << >> ELSE pendingChanges
                /\ UNCHANGED << store, cache, loaded, pageId, doc, isEditorReady,
                                pendingPage, nextSrv, nextEd, edits, failures, navs, refetches, pure >>
                /\ IF saveChangesSkips(t.cl)
                   THEN /\ timers' = rest
                        /\ lastInvoke' = "dropped"
                        /\ UNCHANGED << isSavingRef, passes, saveStatus, resetTimers,
                                        lastDone, pure >>
                   ELSE LET p == NewPass(t.cl, t.doc, t.capPage)
                        IN  /\ nextSrv + CreatesOf(t.cl, t.doc) - 1 <= MaxSrvIds
                            /\ timers' = Rerendered(rest)
                            /\ lastInvoke' = "started"
                            /\ IF p.phase = "done"
                               THEN /\ passes' = passes
                                    /\ Finished(p, store, ServerBlocksOf(p.cl.pageId))
                               ELSE /\ passes' = Append(passes, p)
                                    /\ isSavingRef' = TRUE
                                    /\ saveStatus' = "saving"
                                    /\ UNCHANGED << resetTimers, lastDone, pure >>

\* the row the backend writes for POST /blocks
CreatedRow(c, id) ==
    [id |-> id, pageId |-> c.pageId, type |-> c.type, content |-> c.content,
     properties |-> StoredProperties, position |-> c.position]

\* the row the backend writes for PATCH /blocks/:id
UpdatedRow(row, c) ==
    [row EXCEPT !.type = IF c.type = "" THEN @ ELSE c.type,
                !.content = c.content, !.properties = StoredProperties,
                !.position = c.position]

\* onSuccess of useCreateBlock / useUpdateBlock / useDeleteBlock
CacheAfterCreate(oldData, newBlock) ==
    IF \E k \in DOMAIN oldData : oldData[k].id = newBlock.id
    THEN [k \in DOMAIN oldData |-> IF oldData[k].id = newBlock.id THEN newBlock ELSE oldData[k]]
    ELSE Append(oldData, newBlock)

CacheAfterUpdate(oldData, updatedBlock) ==
    [k \in DOMAIN oldData |-> IF oldData[k].id = updatedBlock.id THEN updatedBlock ELSE oldData[k]]

CacheAfterDelete(oldData, blockId) == SelectSeq(oldData, LAMBDA b : b.id # blockId)

\* variant in which a rejected call ends the pass
ResumedAbortsOnFailure(p, good, newId) ==
    IF ~good
    THEN [p EXCEPT !.ok = FALSE, !.phase = "walk", !.i = Len(p.doc) + 1]
    ELSE [p EXCEPT
            !.i = p.i + 1,
            !.succeeded = @ + 1,
            !.existingPositions =
                IF p.out.op \in {"create", "update"}
                THEN SetPosition(@, p.out.node, p.out.position) ELSE @,
            !.ids = IF p.out.op = "create" THEN [@ EXCEPT ![p.i] = newId] ELSE @]

\* the pass after the await of p.out: the rest of the try block when the
\* call resolved (good; newId is the id of a created block), the catch
\* block of the item when it was rejected; either way the loop goes on
Resumed(p, good, newId) ==
    [p EXCEPT
       !.i = p.i + 1,
       !.ok = p.ok /\ good,
       !.succeeded = IF good THEN @ + 1 ELSE @,
       !.existingPositions =
           IF good /\ p.out.op \in {"create", "update"}
           THEN SetPosition(@, p.out.node, p.out.position) ELSE @,
       !.ids = IF good /\ p.out.op = "create" THEN [@ EXCEPT ![p.i] = newId] ELSE @]

\* the store call a pass waits for resolves or rejects, and the pass runs on
\* to its next call or to its end.  The backend rejects a create whose type
\* fails validation and an update or delete of a row it does not find; the
\* network rejects up to `failures` calls more
CallResolves ==
    \E k \in DOMAIN passes : \E succ \in BOOLEAN :
        LET p == passes[k]
            c == p.out
            rowExists == \E r \in store : r.id = c.id
            good == /\ succ
                    /\ c.op = "create" => c.type \in BlockTypeEnum
                    /\ c.op \in {"update", "delete"} => rowExists
            oldRow == CHOOSE r \in store : r.id = c.id
            newRow == IF c.op = "create" THEN CreatedRow(c, SrvIdTable[nextSrv])
                      ELSE UpdatedRow(oldRow, c)
            key == newRow.pageId
            store1 == IF ~good THEN store
                      ELSE IF c.op = "create" THEN store \cup {newRow}
                      ELSE IF c.op = "update" THEN (store \ {oldRow}) \cup {newRow}
                      ELSE store \ {oldRow}
            cache1 == IF ~good THEN cache
                      ELSE IF c.op = "create"
                      THEN [cache EXCEPT ![key] = CacheAfterCreate(@, WithMappedType(newRow))]
                      ELSE IF c.op = "update"
                      THEN [cache EXCEPT ![key] = CacheAfterUpdate(@, WithMappedType(newRow))]
                      ELSE [cache EXCEPT ![c.pageId] = CacheAfterDelete(@, c.id)]
            loaded1 == IF ~good THEN loaded
                       ELSE IF c.op = "delete" THEN loaded \cup {c.pageId}
                       ELSE loaded \cup {key}
            p2 == Advance(Resumed(p, good, SrvIdTable[nextSrv]))
        IN  /\ c.op = "create" => nextSrv <= MaxSrvIds
            /\ (~succ) => failures > 0
            /\ failures' = IF succ THEN failures ELSE failures - 1
            /\ store' = store1
            /\ cache' = cache1
            /\ loaded' = loaded1
            /\ nextSrv' = IF good /\ c.op = "create" THEN nextSrv + 1 ELSE nextSrv
            /\ timers' = Rerendered(timers)
            /\ IF p2.phase = "done"
               THEN /\ passes' = RemoveAt(passes, k)
                    /\ Finished(p2, store1,
                                IF p2.cl.pageId \in loaded1 THEN cache1[p2.cl.pageId] ELSE << >>)
               ELSE /\ passes' = [passes EXCEPT ![k] = p2]
                    /\ UNCHANGED << isSavingRef, saveStatus, resetTimers, lastDone, pure >>
            /\ UNCHANGED << pageId, doc, isEditorReady, pendingChanges, pendingPage,
                            nextEd, edits, navs, refetches, lastInvoke, pure >>

\* the host page hands the mounted editor another pageId
Navigate ==
    \E q \in Pages \ {pageId} :
        /\ mounted
        /\ navs > 0
        /\ navs' = navs - 1
        /\ pageId' = q
        /\ timers' = Rerendered(timers)
        /\ UNCHANGED << store, cache, loaded, doc, isEditorReady, isSavingRef,
                        pendingChanges, pendingPage, passes, saveStatus, resetTimers,
                        nextSrv, nextEd, edits, failures, refetches, lastInvoke,
                        lastDone, pure >>

\* setTimeout(() => setSaveStatus("idle"), 2000) of an earlier pass fires
StatusReset ==
    /\ resetTimers > 0
    /\ resetTimers' = resetTimers - 1
    /\ saveStatus' = "idle"
    /\ UNCHANGED << store, cache, loaded, pageId, doc, isEditorReady, isSavingRef,
                    pendingChanges, pendingPage, timers, passes, nextSrv, nextEd,
                    edits, failures, navs, refetches, lastInvoke, lastDone, pure >>

Next ==
    \/ FetchBlocks
    \/ LoadServerContent
    \/ EditContent
    \/ InsertNode
    \/ RemoveNode
    \/ MoveNode
    \/ KeyTrigger
    \/ Blur
    \/ TimerFire
    \/ CallResolves

\* one editor session on a page of up to MaxRows rows: edits, save triggers
\* and passes with rejected calls
Spec == Init /\ [][Next]_vars

\* the same session with the steps that need no user: a timer that is armed
\* fires, a store call that is outstanding resolves or is rejected, the block
\* query resolves and the load effect runs
Fairness ==
    /\ WF_vars(TimerFire)
    /\ WF_vars(CallResolves)
    /\ WF_vars(FetchBlocks)
    /\ WF_vars(LoadServerContent)

SpecFair == Init /\ [][Next]_vars /\ Fairness

\* a session in which the user inserts and removes nodes, every store call
\* succeeding
InitDelete == InitWith(0..MaxRows, DeleteEdits, 0, 0, 0)

NextDelete ==
    \/ FetchBlocks
    \/ LoadServerContent
    \/ InsertNode
    \/ RemoveNode
    \/ KeyTrigger
    \/ Blur
    \/ TimerFire
    \/ CallResolves

SpecDelete == InitDelete /\ [][NextDelete]_vars

\* a session of content edits only, every store call succeeding
InitIdem == InitWith(0..1, IdemEdits, 0, 0, 0)

NextIdem ==
    \/ FetchBlocks
    \/ LoadServerContent
    \/ EditContent
    \/ KeyTrigger
    \/ Blur
    \/ TimerFire
    \/ CallResolves
    \/ StatusReset

SpecIdem == InitIdem /\ [][NextIdem]_vars

\* a session on a page of OrderRows rows whose user reorders or removes nodes
InitOrder == InitWith({OrderRows}, OrderEdits, 0, 0, 0)

NextOrder ==
    \/ FetchBlocks
    \/ LoadServerContent
    \/ RemoveNode
    \/ MoveNode
    \/ KeyTrigger
    \/ Blur
    \/ TimerFire
    \/ CallResolves

SpecOrder == InitOrder /\ [][NextOrder]_vars

\* a session in which the host page changes the pageId of the mounted editor
InitNav == InitWith(0..1, NavEdits, 0, MaxNavs, MaxRefetches)

NextNav ==
    \/ FetchBlocks
    \/ LoadServerContent
    \/ EditContent
    \/ KeyTrigger
    \/ Blur
    \/ TimerFire
    \/ CallResolves
    \/ Navigate

SpecNav == InitNav /\ [][NextNav]_vars

\* a session of content edits on a page whose rows hold, in the JSONB column
\* "properties" of the blocks table, the props the editor gives to a
\* paragraph (rows not written through POST / or PATCH /:id of routes/blocks,
\* which store {})
InitUnchanged ==
    /\ \E n \in 1..MaxRows :
          /\ store = {[InitialRow(k) EXCEPT !.properties = DefaultProps] : k \in 1..n}
          /\ nextSrv = n + 1
    /\ cache = [p \in Pages |-> << >>] /\ loaded = {} /\ pageId = "P"
    /\ doc = << LoadingParagraph >> /\ isEditorReady = FALSE /\ isSavingRef = FALSE
    /\ pendingChanges = << >> /\ pendingPage = "" /\ timers = << >> /\ passes = << >>
    /\ saveStatus = "idle" /\ resetTimers = 0 /\ nextEd = 1
    /\ edits = UnchangedEdits /\ failures = 0 /\ navs = 0 /\ refetches = 0
    /\ lastInvoke = "none" /\ lastDone = NoPass
    /\ mapIn = "" /\ mapVal = "" /\ mapOps = << >>
    /\ posIn = << >> /\ posOut = -1 /\ posIndex = 0
    /\ mounted = TRUE /\ mutations = << >> /\ patched = NoPatch /\ settled = NoSettled

SpecUnchanged == InitUnchanged /\ [][NextIdem]_vars

(***************************************************************************)
(* SpecMap: the type mapper applied to strings of both vocabularies and to *)
(* strings of neither.                                                     *)
(***************************************************************************)
EditorTypes == DOMAIN BLOCKNOTE_TO_API_TYPE_MAP
StoreTypes == DOMAIN API_TO_BLOCKNOTE_TYPE_MAP

MapInputs ==
    EditorTypes \cup StoreTypes \cup ObjectPrototypeKeys
        \cup {"", "Paragraph", "text", "SUMMARY", "toggle", "unknown"}

InitMap ==
    /\ store = {} /\ nextSrv = 1
    /\ cache = [p \in Pages |-> << >>] /\ loaded = {} /\ pageId = "P"
    /\ doc = << LoadingParagraph >> /\ isEditorReady = FALSE /\ isSavingRef = FALSE
    /\ pendingChanges = << >> /\ pendingPage = "" /\ timers = << >> /\ passes = << >>
    /\ saveStatus = "idle" /\ resetTimers = 0 /\ nextEd = 1
    /\ edits = 0 /\ failures = 0 /\ navs = 0 /\ refetches = 0
    /\ lastInvoke = "none" /\ lastDone = NoPass
    /\ mapIn \in MapInputs /\ mapVal = mapIn /\ mapOps = << >>
    /\ posIn = << >> /\ posOut = -1 /\ posIndex = 0
    /\ mounted = TRUE /\ mutations = << >> /\ patched = NoPatch /\ settled = NoSettled

ApplyToAPI ==
    /\ Len(mapOps) < MaxChain
    /\ mapVal' = mapBlockNoteTypeToAPI(mapVal)
    /\ mapOps' = Append(mapOps, "toAPI")
    /\ UNCHANGED << syncVars, mapIn, posIn, posOut, posIndex >>

ApplyToBlockNote ==
    /\ Len(mapOps) < MaxChain
    /\ mapVal' = mapAPITypeToBlockNote(mapVal)
    /\ mapOps' = Append(mapOps, "toBlockNote")
    /\ UNCHANGED << syncVars, mapIn, posIn, posOut, posIndex >>

NextMap == ApplyToAPI \/ ApplyToBlockNote

SpecMap == InitMap /\ [][NextMap]_vars

(***************************************************************************)
(* SpecPos: calculatePosition for a node inserted between the first two of *)
(* three adjacent siblings with resolved positions p1 < p2 < p3.           *)
(***************************************************************************)
PosStarts == {0, 1, 500, 999, 1000, 1001, 2000}

InitPos ==
    /\ store = {} /\ nextSrv = 1
    /\ cache = [p \in Pages |-> << >>] /\ loaded = {} /\ pageId = "P"
    /\ doc = << LoadingParagraph >> /\ isEditorReady = FALSE /\ isSavingRef = FALSE
    /\ pendingChanges = << >> /\ pendingPage = "" /\ timers = << >> /\ passes = << >>
    /\ saveStatus = "idle" /\ resetTimers = 0 /\ nextEd = 1
    /\ edits = 0 /\ failures = 0 /\ navs = 0 /\ refetches = 0
    /\ lastInvoke = "none" /\ lastDone = NoPass
    /\ mapIn = "" /\ mapVal = "" /\ mapOps = << >>
    /\ \E p1 \in PosStarts : \E g1 \in 1..MaxGap : \E g2 \in 1..MaxGap :
          posIn = << p1, p1 + g1, p1 + g1 + g2 >>
    /\ posOut = -1 /\ posIndex = 1
    /\ mounted = TRUE /\ mutations = << >> /\ patched = NoPatch /\ settled = NoSettled

\* the document << sibling 1, new node, sibling 2, sibling 3 >> and the
\* position map of the three siblings
SiblingDoc ==
    << [id |-> SrvIdTable[1]], [id |-> EditorIdTable[1]], [id |-> SrvIdTable[2]],
       [id |-> SrvIdTable[3]] >>

SiblingPositions ==
    [id \in {SrvIdTable[1], SrvIdTable[2], SrvIdTable[3]} |->
        IF id = SrvIdTable[1] THEN posIn[1]
        ELSE IF id = SrvIdTable[2] THEN posIn[2] ELSE posIn[3]]

InsertBetween ==
    /\ posOut = -1
    /\ posOut' = calculatePosition(SiblingDoc, posIndex, SiblingPositions)
    /\ UNCHANGED << syncVars, mapIn, mapVal, mapOps, posIn, posIndex >>

NextPos == InsertBetween

SpecPos == InitPos /\ [][NextPos]_vars

(***************************************************************************)
(* SpecCalc: calculatePosition for documents of up to MaxCalcNodes nodes,  *)
(* every index and every position map over their ids.  posIn[k] is the     *)
(* entry of node k in the map, NoEntry when the map has none.              *)
(***************************************************************************)
NoEntry == -1
CalcPositionValues == {0, 1, 1000, 1001, 2500}

InitCalc ==
    /\ store = {} /\ nextSrv = 1
    /\ cache = [p \in Pages |-> << >>] /\ loaded = {} /\ pageId = "P"
    /\ doc = << LoadingParagraph >> /\ isEditorReady = FALSE /\ isSavingRef = FALSE
    /\ pendingChanges = << >> /\ pendingPage = "" /\ timers = << >> /\ passes = << >>
    /\ saveStatus = "idle" /\ resetTimers = 0 /\ nextEd = 1
    /\ edits = 0 /\ failures = 0 /\ navs = 0 /\ refetches = 0
    /\ lastInvoke = "none" /\ lastDone = NoPass
    /\ mapIn = "" /\ mapVal = "" /\ mapOps = << >>
    /\ \E n \in 1..MaxCalcNodes :
          /\ posIn \in [1..n -> CalcPositionValues \cup {NoEntry}]
          /\ posIndex \in 0..(n - 1)
    /\ posOut = -1
    /\ mounted = TRUE /\ mutations = << >> /\ patched = NoPatch /\ settled = NoSettled

\* the document of Len(posIn) nodes and the map with the entries of posIn
CalcDoc == [k \in DOMAIN posIn |-> [id |-> SrvIdTable[k]]]

CalcPositions ==
    [id \in {SrvIdTable[k] : k \in {j \in DOMAIN posIn : posIn[j] # NoEntry}} |->
        posIn[CHOOSE k \in DOMAIN posIn : SrvIdTable[k] = id]]

Calculate ==
    /\ posOut = -1
    /\ posOut' = calculatePosition(CalcDoc, posIndex, CalcPositions)
    /\ UNCHANGED << syncVars, mapIn, mapVal, mapOps, posIn, posIndex >>

NextCalc == Calculate

SpecCalc == InitCalc /\ [][NextCalc]_vars

(***************************************************************************)
(* Properties.                                                             *)
(***************************************************************************)

\* C1 (SpecIdem): when a pass has returned with every store call succeeding
\* and the next pass runs on the same page with the identical document and
\* with the block list as that first pass left it, the next pass issues no
\* create, update or delete call.
C1_SecondPassIssuesNothing ==
    (lastDone.valid /\ lastDone.prevSame) => lastDone.calls = << >>

\* C2 (Spec): at most one saveChanges pass of the editor has store calls
\* outstanding, and isSavingRef is set for as long as it has.
C2_AtMostOnePassInFlight ==
    /\ Len(passes) <= 1
    /\ passes # << >> => isSavingRef

\* an invocation of saveChanges was dropped while a pass was waiting for a
\* store call, and that pass is still the only one
C2_Witness ==
    /\ lastInvoke = "dropped"
    /\ isSavingRef
    /\ Len(passes) = 1
    /\ passes[1].out.op # "none"

\* C3 (SpecOrder): after a pass whose store calls all succeeded, the rows of
\* the nodes carry positions that do not decrease along the document, so that
\* sorting the page's rows by position can give the document's order.
C3_PositionsFollowDocument ==
    (lastDone.valid /\ lastDone.ok)
        => \A i \in DOMAIN lastDone.doc : \A j \in DOMAIN lastDone.doc :
              i < j => lastDone.posOf[i] <= lastDone.posOf[j]

\* C4 (Spec): after a pass whose store calls all succeeded, every node of its
\* document has a row of its own on the page and the page has no other row.
C4_OneToOne ==
    (lastDone.valid /\ lastDone.ok)
        => /\ \A k \in DOMAIN lastDone.doc : lastDone.ids[k] \in lastDone.rowIds
           /\ \A i \in DOMAIN lastDone.doc : \A j \in DOMAIN lastDone.doc :
                 i # j => lastDone.ids[i] # lastDone.ids[j]
           /\ lastDone.rowIds \subseteq Range(lastDone.ids)

\* C5 (SpecDelete): every delete call of every pass is addressed to an id that the
\* store assigned and that no node of the pass's document carries; no delete
\* call is addressed to the id of a node that was never saved.
C5_DeletesOnlyStoreRows ==
    /\ \A k \in DOMAIN passes : \A n \in DOMAIN passes[k].calls :
          passes[k].calls[n].op = "delete"
              => /\ passes[k].calls[n].id \in {SrvIdTable[m] : m \in 1..(nextSrv - 1)}
                 /\ passes[k].calls[n].id \notin
                        {passes[k].doc[i].id : i \in DOMAIN passes[k].doc}
    /\ lastDone.valid
          => \A n \in DOMAIN lastDone.calls :
                lastDone.calls[n].op = "delete"
                    => /\ lastDone.calls[n].id \in {SrvIdTable[m] : m \in 1..(nextSrv - 1)}
                       /\ lastDone.calls[n].id \notin
                              {lastDone.doc[i].id : i \in DOMAIN lastDone.doc}

\* a pass issued a delete call and, for a node of its document that was
\* never saved, a create call
C5_Witness ==
    /\ lastDone.valid
    /\ \E n \in DOMAIN lastDone.calls : lastDone.calls[n].op = "delete"
    /\ \E n \in DOMAIN lastDone.calls :
          /\ lastDone.calls[n].op = "create"
          /\ lastDone.calls[n].node \in EditorIds

\* C6 (SpecIdem): when the previous pass created a node and the store
\* returned id S for it, and the next pass on the same page, started with the
\* block list as the previous pass left it, finds the content of that node
\* edited, it issues exactly one update call addressed to S and no create
\* call for the node.
C6_EditedNodeIsUpdatedInPlace ==
    lastDone.valid
        => \A c \in lastDone.prevCreated : \A k \in DOMAIN lastDone.doc :
              (lastDone.doc[k].id = c.node /\ lastDone.doc[k].content # c.content)
                  => /\ Cardinality({n \in DOMAIN lastDone.calls :
                                        /\ lastDone.calls[n].op = "update"
                                        /\ lastDone.calls[n].id = c.id}) = 1
                     /\ ~\E n \in DOMAIN lastDone.calls :
                            /\ lastDone.calls[n].op = "create"
                            /\ lastDone.calls[n].node = c.node

\* C7 (SpecPos): for sibling positions p1 < p2 < p3, the position returned
\* for a node inserted between siblings 1 and 2 lies strictly between p1
\* and p2.
C7_StrictlyBetween ==
    posOut # -1 => (posIn[1] < posOut /\ posOut < posIn[2])

\* C8 (SpecMap): converting an editor type of the table to the store
\* vocabulary and back gives an editor type of the table, and gives the type
\* itself unless the type is "audio".
C8_RoundTrip ==
    (mapOps = << "toAPI", "toBlockNote" >> /\ mapIn \in EditorTypes)
        => /\ mapVal \in EditorTypes
           /\ mapIn # "audio" => mapVal = mapIn

\* the round trip of a type that shares its store type with another one
C8_Witness ==
    /\ mapOps = << "toAPI", "toBlockNote" >>
    /\ mapIn = "checkListItem"
    /\ mapVal = "checkListItem"

\* C9 (SpecMap): a string outside the editor vocabulary converts to "TEXT"
\* and a string outside the store vocabulary converts to "paragraph".
C9_UnknownMapsToPlainText ==
    /\ (mapOps = << "toAPI" >> /\ mapIn \notin EditorTypes) => mapVal = "TEXT"
    /\ (mapOps = << "toBlockNote" >> /\ mapIn \notin StoreTypes) => mapVal = "paragraph"

\* C10 (SpecNav): every create or update call of every pass goes to the page
\* that was shown when the document of the pass was captured.
C10_SaveStaysOnItsPage ==
    /\ \A k \in DOMAIN passes : \A n \in DOMAIN passes[k].calls :
          passes[k].calls[n].op \in {"create", "update"}
              => passes[k].calls[n].pageId = passes[k].capPage
    /\ lastDone.valid
          => \A n \in DOMAIN lastDone.calls :
                lastDone.calls[n].op \in {"create", "update"}
                    => lastDone.calls[n].pageId = lastDone.capPage

\* C11 (SpecDelete): a pass issues a delete call for a block of its server
\* list if and only if the block's id is not the id of a node of the pass's
\* document and satisfies isServerGeneratedId; it issues one call for such a
\* block and no delete call for anything else.  While the pass runs, the
\* delete calls issued so far are all of that kind.
C11_DeleteSetRule ==
    /\ \A k \in DOMAIN passes :
          LET p == passes[k]
              editorIds == {p.doc[i].id : i \in DOMAIN p.doc}
              serverIds == {p.cl.serverBlocks[i].id : i \in DOMAIN p.cl.serverBlocks}
          IN  \A n \in DOMAIN p.calls :
                 p.calls[n].op = "delete"
                     => /\ p.calls[n].id \in serverIds
                        /\ p.calls[n].id \notin editorIds
                        /\ isServerGeneratedId(p.calls[n].id)
    /\ lastDone.valid
          => LET editorIds == {lastDone.doc[i].id : i \in DOMAIN lastDone.doc}
                 serverIds ==
                     {lastDone.serverBlocks[i].id : i \in DOMAIN lastDone.serverBlocks}
                 deleted(id) == {n \in DOMAIN lastDone.calls :
                                    /\ lastDone.calls[n].op = "delete"
                                    /\ lastDone.calls[n].id = id}
             IN  /\ \A id \in serverIds :
                       IF id \notin editorIds /\ isServerGeneratedId(id)
                       THEN Cardinality(deleted(id)) = 1
                       ELSE deleted(id) = {}
                 /\ \A n \in DOMAIN lastDone.calls :
                       lastDone.calls[n].op = "delete" => lastDone.calls[n].id \in serverIds

\* a pass whose server list held a block that its document had lost and a
\* block that its document still had has returned
C11_Witness ==
    /\ lastDone.valid
    /\ \E i \in DOMAIN lastDone.serverBlocks :
          lastDone.serverBlocks[i].id \notin {lastDone.doc[k].id : k \in DOMAIN lastDone.doc}
    /\ \E i \in DOMAIN lastDone.serverBlocks :
          lastDone.serverBlocks[i].id \in {lastDone.doc[k].id : k \in DOMAIN lastDone.doc}
    /\ \E n \in DOMAIN lastDone.calls : lastDone.calls[n].op = "delete"

\* C12 (Spec): in the walk of a pass a node is sent as a create call exactly
\* when its id is not both an id of the shape of a store id and the id of a
\* block of the pass's server list: such a node gets one create call and no
\* update call, and any other node gets no create call.  While the pass
\* runs, the calls issued so far obey the same rule.
C12_CreateSetRule ==
    /\ \A k \in DOMAIN passes :
          LET p == passes[k]
              confirmed(id) == isServerGeneratedId(id) /\ isBlockOnServer(id, p.cl.serverBlocks)
          IN  \A n \in DOMAIN p.calls :
                 /\ p.calls[n].op = "create" => ~confirmed(p.calls[n].node)
                 /\ p.calls[n].op = "update" => confirmed(p.calls[n].node)
    /\ lastDone.valid
          => LET confirmed(id) ==
                     isServerGeneratedId(id) /\ isBlockOnServer(id, lastDone.serverBlocks)
                 sent(op, id) == {n \in DOMAIN lastDone.calls :
                                     /\ lastDone.calls[n].op = op
                                     /\ lastDone.calls[n].node = id}
             IN  /\ \A k \in DOMAIN lastDone.doc :
                       IF confirmed(lastDone.doc[k].id)
                       THEN sent("create", lastDone.doc[k].id) = {}
                       ELSE /\ Cardinality(sent("create", lastDone.doc[k].id)) = 1
                            /\ sent("update", lastDone.doc[k].id) = {}
                 /\ \A n \in DOMAIN lastDone.calls :
                       lastDone.calls[n].op \in {"create", "update"}
                           => \E k \in DOMAIN lastDone.doc :
                                 lastDone.doc[k].id = lastDone.calls[n].node

\* a pass whose document held a node of the server list and a node typed
\* since has returned with an update call and a create call
C12_Witness ==
    /\ lastDone.valid
    /\ \E n \in DOMAIN lastDone.calls :
          /\ lastDone.calls[n].op = "create"
          /\ lastDone.calls[n].node \in EditorIds
    /\ \E n \in DOMAIN lastDone.calls :
          /\ lastDone.calls[n].op = "update"
          /\ lastDone.calls[n].node \in SrvIds

C14_DriftForcesUpdate ==
    lastDone.valid
        => \A k \in DOMAIN lastDone.doc :
              LET block == lastDone.doc[k]
                  confirmed == /\ isServerGeneratedId(block.id)
                               /\ isBlockOnServer(block.id, lastDone.serverBlocks)
              IN  (/\ confirmed
                   /\ Abs(FindBlock(lastDone.serverBlocks, block.id).position
                            - lastDone.positions[k]) > PositionTolerance)
                      => \E n \in DOMAIN lastDone.calls :
                            /\ lastDone.calls[n].op = "update"
                            /\ lastDone.calls[n].id = block.id
                            /\ lastDone.calls[n].position = lastDone.positions[k]

\* a returned pass computed, for a node whose content and type are those of
\* its block, a position more than PositionTolerance away from the block's
C14_Witness ==
    /\ lastDone.valid
    /\ \E k \in DOMAIN lastDone.doc :
          /\ isBlockOnServer(lastDone.doc[k].id, lastDone.serverBlocks)
          /\ LET existingBlock == FindBlock(lastDone.serverBlocks, lastDone.doc[k].id)
             IN  /\ existingBlock.content = lastDone.doc[k].content
                 /\ existingBlock.type = lastDone.doc[k].type
                 /\ Abs(existingBlock.position - lastDone.positions[k]) > PositionTolerance
                 /\ lastDone.positions[k] # -1

\* C15 (SpecDelete): in every pass the delete calls come before every create
\* or update call, the create and update calls come in the order of their
\* nodes in the pass's document, and a call is issued only when every
\* earlier call of the pass has resolved (the call a pass waits for is the
\* one it issued last).
C15_DeletesThenDocumentOrder ==
    LET indexOf(d, id) == CHOOSE k \in DOMAIN d : d[k].id = id
        ordered(d, calls) ==
            \A m \in DOMAIN calls : \A n \in DOMAIN calls :
                m < n => /\ calls[n].op = "delete" => calls[m].op = "delete"
                         /\ (calls[m].op # "delete" /\ calls[n].op # "delete")
                                => indexOf(d, calls[m].node) < indexOf(d, calls[n].node)
    IN  /\ \A k \in DOMAIN passes :
              /\ ordered(passes[k].doc, passes[k].calls)
              /\ passes[k].calls # << >>
              /\ passes[k].out = passes[k].calls[Len(passes[k].calls)]
        /\ lastDone.valid => ordered(lastDone.doc, lastDone.calls)

\* a returned pass issued a delete call and then calls for two nodes
C15_Witness ==
    /\ lastDone.valid
    /\ Len(lastDone.calls) >= 3
    /\ lastDone.calls[1].op = "delete"
    /\ lastDone.calls[2].op # "delete"
    /\ lastDone.calls[3].op # "delete"

\* C16 (Spec): a pass in which a store call was rejected still attempts its
\* whole plan: when it returns it has issued a delete call for every block
\* of its server list that its document has lost, has computed a position
\* for every node of its document, and has issued a create call for every
\* node that is not a block of its server list and an update call for every
\* node that is (hasBlockChanged finds every such node changed).
C16_FailedCallDoesNotAbort ==
    (lastDone.valid /\ ~lastDone.ok)
        => LET editorIds == {lastDone.doc[i].id : i \in DOMAIN lastDone.doc}
               serverIds == {lastDone.serverBlocks[i].id : i \in DOMAIN lastDone.serverBlocks}
               issued(op, key) == \E n \in DOMAIN lastDone.calls :
                                     /\ lastDone.calls[n].op = op
                                     /\ (IF op = "delete" THEN lastDone.calls[n].id
                                         ELSE lastDone.calls[n].node) = key
           IN  /\ \A id \in serverIds \ editorIds : issued("delete", id)
               /\ \A k \in DOMAIN lastDone.doc :
                     /\ lastDone.positions[k] # -1
                     /\ lastDone.doc[k].id \notin serverIds
                            => issued("create", lastDone.doc[k].id)
                     /\ lastDone.doc[k].id \in serverIds
                            => issued("update", lastDone.doc[k].id)

\* a returned pass whose first call, a delete, was rejected (the row is
\* still there) went on to issue a call for a node
C16_Witness ==
    /\ lastDone.valid
    /\ ~lastDone.ok
    /\ Len(lastDone.calls) >= 2
    /\ lastDone.calls[1].op = "delete"
    /\ lastDone.calls[1].id \in lastDone.rowIds
    /\ lastDone.calls[2].op # "delete"

\* C17 (Spec): when a pass returns, the save status is "saved" whatever calls
\* were rejected, except that it is "error" when the pass issued at least
\* one store call and none of its calls succeeded.
C17_FinalStatus ==
    [][lastDone' # lastDone
          => saveStatus' = IF lastDone'.calls # << >> /\ lastDone'.succeeded = 0
                           THEN "error" ELSE "saved"]_vars

\* C18 (SpecCalc): for every document, index and position map,
\* calculatePosition returns 1000 for index 0 and otherwise the integer v with
\* 2v <= prev + next < 2v + 2, where prev is the entry of the nearest earlier
\* node that has one (0 if none has) and next is the entry of the nearest
\* later node that has one (prev + 2000 if none has).
C18_MidpointRule ==
    posOut # -1
        => IF posIndex = 0 THEN posOut = 1000
           ELSE LET earlier == {k \in 1..posIndex : posIn[k] # NoEntry}
                    later == {k \in (posIndex + 2)..Len(posIn) : posIn[k] # NoEntry}
                    prev == IF earlier = {} THEN 0
                            ELSE posIn[CHOOSE k \in earlier : \A j \in earlier : j <= k]
                    next == IF later = {} THEN prev + 2000
                            ELSE posIn[CHOOSE k \in later : \A j \in later : k <= j]
                IN  /\ 2 * posOut <= prev + next
                    /\ prev + next < 2 * posOut + 2

\* the call was made for a middle node that has an entry of its own, with a
\* gap in the map before it and an entry after it, and an odd sum
C18_Witness ==
    /\ posOut # -1
    /\ Len(posIn) = 3
    /\ posIndex = 1
    /\ posIn = << 1, 2500, 1000 >>
    /\ posOut = 500

\* C19 (SpecFair): once the editor is ready, a document that a content
\* mutation has left in pendingChanges leads to a state in which a timer
\* armed with the document is pending, or a pass is saving it, or the pass
\* that returned last has saved it, whether or not the user does anything
\* more.
C19_MutationLeadsToSave ==
    (isEditorReady /\ pendingChanges # << >> /\ pendingChanges = doc)
        ~> (\/ \E k \in DOMAIN timers : timers[k].doc = doc
            \/ \E k \in DOMAIN passes : passes[k].doc = doc
            \/ lastDone.valid /\ lastDone.doc = doc)

\* C20 (SpecIdem): save triggers that follow one another within the debounce
\* window leave one debounce timer pending, that of the last trigger, so
\* that the burst ends in one invocation of saveChanges: no state has two
\* debounce timers pending, re-renders between the triggers included.
C20_OneTimerPerBurst ==
    Cardinality({k \in DOMAIN timers : timers[k].kind = "debounce"}) <= 1

(***************************************************************************)
(* Unmount of the editor.  The cleanup of the listeners effect removes the *)
(* keyup, blur and mouseup listeners and clears saveTimeoutRef, which      *)
(* nothing sets: the timers of debounce and of handleBlur keep running and *)
(* their callbacks still call saveChanges, but nothing is invoked by the   *)
(* unmount itself.  pendingChanges keeps the value the state had when the  *)
(* component went away.                                                    *)
(***************************************************************************)
UnmountEdits == 2    \* content edits in one behaviour of SpecUnmount

Unmount ==
    /\ mounted
    /\ mounted' = FALSE
    /\ UNCHANGED << syncVarsOfSession, mapIn, mapVal, mapOps, posIn, posOut, posIndex,
                    mutations, patched, settled >>

InitUnmount == InitWith(0..1, UnmountEdits, 0, 0, 0)

NextUnmount ==
    \/ FetchBlocks
    \/ LoadServerContent
    \/ EditContent
    \/ KeyTrigger
    \/ Blur
    \/ TimerFire
    \/ CallResolves
    \/ Unmount

\* a session that ends with the unmount of the editor; timers fire and calls
\* resolve as in SpecFair
SpecUnmount == InitUnmount /\ [][NextUnmount]_vars /\ Fairness

\* C21 (SpecUnmount): once the editor has lost focus (a blur timer holds the
\* pending document) or has unmounted while pendingChanges holds the
\* document, a saveChanges pass with that document is eventually started
C21_FlushOnBlurAndUnmount ==
    (/\ pendingChanges # << >>
     /\ pendingChanges = doc
     /\ \/ ~mounted
        \/ \E k \in DOMAIN timers : timers[k].kind = "blur" /\ timers[k].doc = doc)
    ~> (\/ \E k \in DOMAIN passes : passes[k].doc = doc
        \/ lastDone.valid /\ lastDone.doc = doc)

(***************************************************************************)
(* Sessions whose passes hold several store calls, some of them rejected,  *)
(* with the fairness of SpecFair.                                          *)
(***************************************************************************)
SavingEdits == 2      \* edits in one behaviour of SpecSaving
SavingFailures == 1   \* store calls the network rejects in one behaviour of SpecSaving

InitSaving == InitWith(0..1, SavingEdits, SavingFailures, 0, 0)

NextSaving ==
    \/ FetchBlocks
    \/ LoadServerContent
    \/ EditContent
    \/ InsertNode
    \/ KeyTrigger
    \/ TimerFire
    \/ CallResolves

SpecSaving == InitSaving /\ [][NextSaving]_vars /\ Fairness

\* C22 (SpecSaving): a saveChanges pass that has set isSavingRef eventually
\* clears it, whether its store calls resolve or are rejected
C22_SavingReturnsToIdle == isSavingRef ~> ~isSavingRef

\* a pass is in flight after one of its calls was rejected
C22_Witness ==
    /\ isSavingRef
    /\ \E k \in DOMAIN passes : ~passes[k].ok /\ passes[k].phase # "done"

\* C23 (SpecIdem): while a saveChanges pass is in flight the status shown is
\* "saving"; a reset timer left by an earlier pass does not change that
C23_StatusShowsSaving == isSavingRef => saveStatus = "saving"

(***************************************************************************)
(* PATCH /blocks/:id with bodies that hold any subset of the keys of       *)
(* updateBlockSchema.  A row is written here with its metadata column and  *)
(* with JSON values as strings ("null" is the JSON null).                  *)
(***************************************************************************)
PatchRequests == 2    \* PATCH requests in one behaviour of SpecPatch

PatchKeys == {"type", "content", "metadata", "position"}

\* the body of a request: a value for each key it holds
PatchBody(keys, type, content, metadata, position) ==
    [k \in keys |-> CASE k = "type" -> type
                      [] k = "content" -> content
                      [] k = "metadata" -> metadata
                      [] k = "position" -> position]

\* updateBlockSchema.safeParse(req.body): every key optional, the type a
\* member of BlockTypeEnum
updateBlockSchema(body) == ("type" \in DOMAIN body) => body.type \in BlockTypeEnum

\* prisma.block.update({ where: { id }, data: { type, content: content ?? null,
\* metadata: metadata ?? null, position: position ?? 0, properties: properties ?? {} } })
\* with the validated body, which never has a properties key
PatchedRow(row, validated) ==
    [row EXCEPT
       !.type = IF "type" \in DOMAIN validated THEN validated.type ELSE @,
       !.content = IF "content" \in DOMAIN validated THEN validated.content ELSE "null",
       !.metadata = IF "metadata" \in DOMAIN validated THEN validated.metadata ELSE "null",
       !.position = IF "position" \in DOMAIN validated THEN validated.position ELSE 0,
       !.properties = StoredProperties]

\* rows as POST /blocks leaves them
InitPatch ==
    /\ \E c \in {"null", "c0"} : \E md \in {"null", "m0"} : \E pos \in {0, 1000, 2000} :
          store = {[id |-> SrvIdTable[1], pageId |-> "P", type |-> "TEXT", content |-> c,
                    metadata |-> md, properties |-> StoredProperties, position |-> pos]}
    /\ nextSrv = 2
    /\ cache = [p \in Pages |-> << >>] /\ loaded = {} /\ pageId = "P"
    /\ doc = << LoadingParagraph >> /\ isEditorReady = FALSE /\ isSavingRef = FALSE
    /\ pendingChanges = << >> /\ pendingPage = "" /\ timers = << >> /\ passes = << >>
    /\ saveStatus = "idle" /\ resetTimers = 0 /\ nextEd = 1
    /\ edits = PatchRequests /\ failures = 0 /\ navs = 0 /\ refetches = 0
    /\ lastInvoke = "none" /\ lastDone = NoPass
    /\ mapIn = "" /\ mapVal = "" /\ mapOps = << >>
    /\ posIn = << >> /\ posOut = -1 /\ posIndex = 0
    /\ mounted = TRUE /\ mutations = << >> /\ patched = NoPatch /\ settled = NoSettled

\* router.patch("/:id"): a request of the owner for a row that exists
Patch ==
    \E row \in store : \E keys \in SUBSET PatchKeys :
    \E type \in {"TEXT", "HEADING"} : \E content \in {"c0", "c1"} :
    \E metadata \in {"m0", "m1"} : \E position \in {1000, 1500} :
      LET body == PatchBody(keys, type, content, metadata, position)
      IN
        /\ edits > 0
        /\ updateBlockSchema(body)
        /\ LET updatedBlock == PatchedRow(row, body)
           IN  /\ store' = (store \ {row}) \cup {updatedBlock}
               /\ patched' = [valid |-> TRUE, before |-> row, body |-> body,
                              after |-> updatedBlock]
        /\ edits' = edits - 1
        /\ UNCHANGED << cache, loaded, pageId, doc, isEditorReady, isSavingRef,
                        pendingChanges, pendingPage, timers, passes, saveStatus,
                        resetTimers, nextSrv, nextEd, failures, navs, refetches,
                        lastInvoke, lastDone, mapIn, mapVal, mapOps, posIn, posOut,
                        posIndex, mounted, mutations, settled >>

NextPatch == Patch

SpecPatch == InitPatch /\ [][NextPatch]_vars

\* C24 (SpecPatch): after a PATCH, every one of content, metadata, properties
\* and position that the body omitted has the value the row had before
C24_OmittedFieldsUnchanged ==
    patched.valid =>
        \A f \in {"content", "metadata", "properties", "position"} \ DOMAIN patched.body :
            patched.after[f] = patched.before[f]

\* C25 (SpecDelete): no saveChanges pass runs before the server's blocks are
\* loaded into the editor (isEditorReady), the document of a pass never
\* holds the node "loading-paragraph", and no store call is made for it
C25_NoCallBeforeLoad ==
    /\ ~isEditorReady => (passes = << >> /\ ~lastDone.valid /\ timers = << >>)
    /\ \A k \in DOMAIN passes :
          /\ passes[k].cl.isEditorReady
          /\ \A i \in DOMAIN passes[k].doc : passes[k].doc[i].id # "loading-paragraph"
          /\ passes[k].out.node # "loading-paragraph"
    /\ lastDone.valid =>
          /\ \A i \in DOMAIN lastDone.doc : lastDone.doc[i].id # "loading-paragraph"
          /\ \A i \in DOMAIN lastDone.calls : lastDone.calls[i].node # "loading-paragraph"

\* a pass that ran after the load has deleted a server block
C25_Witness ==
    /\ lastDone.valid
    /\ \E i \in DOMAIN lastDone.calls : lastDone.calls[i].op = "delete"

\* C26 (SpecMap): the store type that mapBlockNoteTypeToAPI returns for an
\* editor type of its table is a member of the backend's BlockTypeEnum
C26_MappedTypeIsAccepted ==
    (mapOps = << "toAPI" >> /\ mapIn \in EditorTypes) => mapVal \in BlockTypeEnum

\* C27 (SpecNav): the document a saveChanges pass reconciles with page X
\* holds no block of another page: every node of it that is a stored row is
\* a row of X
C27_DocumentBelongsToPage ==
    \A k \in DOMAIN passes :
        \A i \in DOMAIN passes[k].doc : \A r \in store :
            r.id = passes[k].doc[i].id => r.pageId = passes[k].cl.pageId

\* C28 (SpecIdem): once the user has edited, the current document is marked
\* pending, or is held by an armed timer, or has been handed to a saveChanges
\* pass that ran (in flight, or the last one that returned): pendingChanges
\* is not cleared while the edits it holds go nowhere
C28_NoSilentLoss ==
    (isEditorReady /\ pendingPage # "")
        => \/ pendingChanges = doc
           \/ \E k \in DOMAIN timers : timers[k].doc = doc
           \/ \E k \in DOMAIN passes : passes[k].doc = doc
           \/ lastDone.valid /\ lastDone.doc = doc

(***************************************************************************)
(* The optimistic block cache of hooks/useBlocks: useCreateBlock and       *)
(* useDeleteBlock on the list ['blocks', 'P'], several mutations in flight *)
(* at a time (PageEditor creates with Promise.all).  The list holds the    *)
(* rows as the backend sends them.  The blockData of a create has no id    *)
(* (fromBlockNote puts the id beside data), written "" here.               *)
(***************************************************************************)
CacheMutations == 3   \* mutations started in one behaviour of SpecCache
CacheFailures == 1    \* requests the network rejects in one behaviour of SpecCache
MaxInFlight == 2      \* mutations in flight together in SpecCache

\* queryClient.getQueryData(['blocks', page]) is undefined before the query has data
hasQueryData(page) == page \in loaded

IdsOf(blocks) == {blocks[k].id : k \in DOMAIN blocks}

\* the variables of createBlock.mutateAsync(p.data)
BlockData(content) ==
    [id |-> "", pageId |-> "P", type |-> "TEXT", content |-> content,
     properties |-> DefaultProps, position |-> 0]

InitCache ==
    /\ \E n \in 1..MaxRows :
          /\ store = {InitialRow(k) : k \in 1..n}
          /\ nextSrv = n + 1
    /\ \E fetched \in BOOLEAN :
          IF fetched
          THEN /\ loaded = {"P"}
               /\ \E rows \in SortedRows(store) :
                      cache = [p \in Pages |-> IF p = "P" THEN rows ELSE << >>]
          ELSE /\ loaded = {}
               /\ cache = [p \in Pages |-> << >>]
    /\ pageId = "P"
    /\ doc = << LoadingParagraph >> /\ isEditorReady = FALSE /\ isSavingRef = FALSE
    /\ pendingChanges = << >> /\ pendingPage = "" /\ timers = << >> /\ passes = << >>
    /\ saveStatus = "idle" /\ resetTimers = 0 /\ nextEd = 1
    /\ edits = CacheMutations /\ failures = CacheFailures /\ navs = 0 /\ refetches = 0
    /\ lastInvoke = "none" /\ lastDone = NoPass
    /\ mapIn = "" /\ mapVal = "" /\ mapOps = << >>
    /\ posIn = << >> /\ posOut = -1 /\ posIndex = 0
    /\ mounted = TRUE /\ mutations = << >> /\ patched = NoPatch /\ settled = NoSettled

\* what a mutation in flight carries: its variables, the context that its
\* onMutate returned, whether onMutate added the optimistic block, and
\* (history) what other mutations did to the list since that onMutate
Mutation(kind, variables, previousBlocks, added) ==
    [kind |-> kind, variables |-> variables, hasContext |-> hasQueryData(variables.pageId),
     previousBlocks |-> previousBlocks, added |-> added,
     sinceAdded |-> {}, sinceRemoved |-> {}]

\* useCreateBlock, onMutate
CreateOnMutate ==
    \E content \in {0, 1} :
        LET blockData == BlockData(content)
            previousBlocks == IF hasQueryData(blockData.pageId)
                              THEN cache[blockData.pageId] ELSE << >>
            exists == blockData.id \in IdsOf(previousBlocks)
            added == hasQueryData(blockData.pageId) /\ ~exists
        IN  /\ edits > 0
            /\ Len(mutations) < MaxInFlight
            /\ edits' = edits - 1
            /\ cache' = IF added
                        THEN [cache EXCEPT ![blockData.pageId] = Append(previousBlocks, blockData)]
                        ELSE cache
            /\ mutations' = Append(mutations, Mutation("create", blockData, previousBlocks, added))
            /\ UNCHANGED << store, loaded, pageId, doc, isEditorReady, isSavingRef,
                            pendingChanges, pendingPage, timers, passes, saveStatus,
                            resetTimers, nextSrv, nextEd, failures, navs, refetches,
                            lastInvoke, lastDone, mapIn, mapVal, mapOps, posIn, posOut,
                            posIndex, mounted, patched, settled >>

\* useDeleteBlock, onMutate
DeleteOnMutate ==
    \E row \in store :
        LET variables == [id |-> row.id, pageId |-> row.pageId]
            previousBlocks == IF hasQueryData(variables.pageId)
                              THEN cache[variables.pageId] ELSE << >>
        IN  /\ edits > 0
            /\ Len(mutations) < MaxInFlight
            /\ edits' = edits - 1
            /\ cache' = IF hasQueryData(variables.pageId)
                        THEN [cache EXCEPT ![variables.pageId] =
                                 SelectSeq(previousBlocks, LAMBDA b : b.id # variables.id)]
                        ELSE cache
            /\ mutations' = Append(mutations, Mutation("delete", variables, previousBlocks, FALSE))
            /\ UNCHANGED << store, loaded, pageId, doc, isEditorReady, isSavingRef,
                            pendingChanges, pendingPage, timers, passes, saveStatus,
                            resetTimers, nextSrv, nextEd, failures, navs, refetches,
                            lastInvoke, lastDone, mapIn, mapVal, mapOps, posIn, posOut,
                            posIndex, mounted, patched, settled >>

\* useCreateBlock, onSuccess
CreateOnSuccess(oldBlocks, hasData, newBlock) ==
    IF ~hasData THEN << newBlock >>
    ELSE IF newBlock.id \in IdsOf(oldBlocks) THEN oldBlocks
    ELSE Append(oldBlocks, newBlock)

\* the list after a mutation settled: onSuccess of useCreateBlock (that of
\* useDeleteBlock leaves the list alone), or onError of either
ListAfterSettle(m, good, newBlock) ==
    LET page == m.variables.pageId
    IN  IF good
        THEN IF m.kind = "create"
             THEN CreateOnSuccess(cache[page], hasQueryData(page), newBlock)
             ELSE cache[page]
        ELSE IF m.hasContext THEN m.previousBlocks ELSE cache[page]

\* the request of a mutation is answered (after its one retry): onSuccess or
\* onError runs
MutationSettles ==
    \E k \in DOMAIN mutations : \E succ \in BOOLEAN :
        LET m == mutations[k]
            page == m.variables.pageId
            good == succ /\ (m.kind = "delete" => \E r \in store : r.id = m.variables.id)
            newBlock == CreatedRow(m.variables, SrvIdTable[nextSrv])
            list == ListAfterSettle(m, good, newBlock)
            Noted(o) == IF ~good THEN o
                        ELSE IF m.kind = "create"
                        THEN [o EXCEPT !.sinceAdded = @ \cup {newBlock.id}]
                        ELSE [o EXCEPT !.sinceRemoved = @ \cup {m.variables.id}]
            others == RemoveAt(mutations, k)
        IN  /\ m.kind = "create" => nextSrv <= MaxSrvIds
            /\ (~succ) => failures > 0
            /\ failures' = IF succ THEN failures ELSE failures - 1
            /\ store' = IF ~good THEN store
                        ELSE IF m.kind = "create" THEN store \cup {newBlock}
                        ELSE {r \in store : r.id # m.variables.id}
            /\ nextSrv' = IF good /\ m.kind = "create" THEN nextSrv + 1 ELSE nextSrv
            /\ cache' = [cache EXCEPT ![page] = list]
            /\ loaded' = IF (good /\ m.kind = "create") \/ (~good /\ m.hasContext)
                         THEN loaded \cup {page} ELSE loaded
            /\ mutations' = [j \in DOMAIN others |-> Noted(others[j])]
            /\ settled' = [valid |-> TRUE, kind |-> m.kind, ok |-> good,
                           restored |-> ~good /\ m.hasContext,
                           variables |-> m.variables, added |-> m.added,
                           newId |-> IF good /\ m.kind = "create" THEN newBlock.id ELSE "",
                           sinceAdded |-> m.sinceAdded, sinceRemoved |-> m.sinceRemoved,
                           list |-> list]
            /\ UNCHANGED << pageId, doc, isEditorReady, isSavingRef,
                            pendingChanges, pendingPage, timers, passes, saveStatus,
                            resetTimers, nextEd, edits, navs, refetches,
                            lastInvoke, lastDone, mapIn, mapVal, mapOps, posIn, posOut,
                            posIndex, mounted, patched >>

NextCache ==
    \/ CreateOnMutate
    \/ DeleteOnMutate
    \/ MutationSettles

SpecCache == InitCache /\ [][NextCache]_vars

\* C29 (SpecCache): after onError restored the snapshot of a failed
\* mutation, the list still shows what the mutations did that succeeded
\* between the onMutate and the onError of the failed one: the blocks they
\* created are in it and the blocks they deleted are not
C29_RollbackIsLocal ==
    (settled.valid /\ settled.restored)
        => /\ settled.sinceAdded \subseteq IdsOf(settled.list)
           /\ settled.sinceRemoved \cap IdsOf(settled.list) = {}

\* C30 (SpecCache): after a create succeeded, the list holds exactly one
\* entry for the created block, counting the block the server returned and
\* the optimistic block that onMutate added
C30_OneEntryPerCreatedBlock ==
    (settled.valid /\ settled.kind = "create" /\ settled.ok)
        => Cardinality({k \in DOMAIN settled.list :
                          \/ settled.list[k].id = settled.newId
                          \/ settled.added /\ settled.list[k] = settled.variables}) = 1

====
